---- MODULE Spec2Model ----
(***************************************************************************)
(* A model of kupfer's object core (src/kupfer/objects.py): Leaves,        *)
(* Actions and Sources.                                                    *)
(*                                                                         *)
(* Four specifications share the module:                                   *)
(*   SpecCache  - Source.get_leaves and its cache, MultiSource, and the    *)
(*                RescanSource action on a SourceLeaf;                     *)
(*   SpecIdent  - Source.__eq__ / __hash__ / __repr__ of two sources;      *)
(*   SpecParent - DirectorySource.has_parent / get_parent walks;           *)
(*   SpecAct    - Leaf.has_content / content_source and Action.activate.   *)
(* A specification leaves the other specifications' variables untouched.   *)
(*                                                                         *)
(* Python strings are sequences of one-character strings, so that          *)
(* formatting, joining, sorting and path normalisation are computed.       *)
(***************************************************************************)
EXTENDS Integers, Sequences, FiniteSets, TLC

VARIABLES
    data,          \* environment: what get_items of a static source yields now
    cached_items,  \* Source.cached_items, per source object
    lastForced,    \* per source: result of its latest get_leaves if that one was forced
    lastOp,        \* the latest call made in SpecCache and what it did
    fs,            \* environment of SpecParent: the symbolic links of the file system
    start,         \* the directory the walk started from
    cur,           \* the source the walk is at
    steps,         \* the get_parent calls that returned a source
    lastCall,      \* the latest get_parent call and its outcome
    objA,          \* SpecIdent: the first of two sources constructed
    objB,          \* SpecIdent: the second
    dirs,          \* environment of SpecAct: the paths that are directories
    lastAct        \* the latest call made in SpecAct and its outcome

cacheVars == <<data, cached_items, lastForced, lastOp>>

parentVars == <<fs, start, cur, steps, lastCall>>

identVars == <<objA, objB>>

actVars == <<dirs, lastAct>>

vars == <<data, cached_items, lastForced, lastOp, fs, start, cur, steps, lastCall,
          objA, objB, dirs, lastAct>>

(***************************************************************************)
(* Bounds.                                                                 *)
(***************************************************************************)
MaxItems == 2

MaxPathLen == 6

MaxDirs == 2

MaxDepth == 2

MaxSources == 2

\* The hash of a string is kept to its low 16 bits.
HashModulus == 65536

(***************************************************************************)
(* Generic helpers.                                                        *)
(***************************************************************************)
SeqsUpTo(S, n) == UNION { [1..k -> S] : k \in 0..n }

RECURSIVE Count(_, _)
Count(x, seq) ==
    IF seq = <<>> THEN 0
    ELSE (IF Head(seq) = x THEN 1 ELSE 0) + Count(x, Tail(seq))

Range(seq) == { seq[i] : i \in 1..Len(seq) }

(***************************************************************************)
(* Python values that get_items / get_leaves pass around: a list, a tuple, *)
(* an iterator (generator, itertools.chain) or None.                       *)
(***************************************************************************)
PyNone == [type |-> "NoneType", elems |-> <<>>]

PyList(e) == [type |-> "list", elems |-> e]

PyTuple(e) == [type |-> "tuple", elems |-> e]

PyIter(e) == [type |-> "iter", elems |-> e]

\* Python's truth value: None and empty lists/tuples are false.
Truthy(v) ==
    CASE v.type = "NoneType" -> FALSE
      [] v.type \in {"list", "tuple"} -> Len(v.elems) > 0
      [] OTHER -> TRUE

\* aslist: lists and tuples are returned as they are, anything else is
\* materialised into a list.
aslist(seq) ==
    IF ~(seq.type = "list") /\ ~(seq.type = "tuple")
    THEN PyList(seq.elems)
    ELSE seq

(***************************************************************************)
(* Python strings: sequences of characters.                                *)
(***************************************************************************)
\* The printable ASCII characters, from code 32 on (the double quote, the
\* backslash and the backtick, which no string of the model holds, by name).
Ascii ==
    <<
       " ", "!", "dquote", "#", "$", "%", "&", "'", "(", ")", "*", "+",
       ",", "-", ".", "/", "0", "1", "2", "3", "4", "5", "6", "7",
       "8", "9", ":", ";", "<", "=", ">", "?", "@", "A", "B", "C",
       "D", "E", "F", "G", "H", "I", "J", "K", "L", "M", "N", "O",
       "P", "Q", "R", "S", "T", "U", "V", "W", "X", "Y", "Z", "[",
       "bslash", "]", "^", "_", "btick", "a", "b", "c", "d", "e", "f", "g",
       "h", "i", "j", "k", "l", "m", "n", "o", "p", "q", "r", "s",
       "t", "u", "v", "w", "x", "y", "z", "{", "|", "}", "~"
    >>

\* ord(c)
Ord(c) == 31 + (CHOOSE i \in 1..Len(Ascii) : Ascii[i] = c)

\* s < t for Python strings: by code point, a proper prefix first.
RECURSIVE StrLess(_, _)
StrLess(s, t) ==
    IF t = <<>> THEN FALSE
    ELSE IF s = <<>> THEN TRUE
    ELSE IF Head(s) # Head(t) THEN Ord(Head(s)) < Ord(Head(t))
    ELSE StrLess(Tail(s), Tail(t))

RECURSIVE Insert(_, _)
Insert(x, l) ==
    IF l = <<>> THEN <<x>>
    ELSE IF StrLess(x, Head(l)) THEN <<x>> \o l
    ELSE <<Head(l)>> \o Insert(x, Tail(l))

\* sorted(l) for a list of strings
RECURSIVE sorted(_)
sorted(l) == IF l = <<>> THEN <<>> ELSE Insert(Head(l), sorted(Tail(l)))

\* sep.join(l)
RECURSIVE str_join(_, _)
str_join(sep, l) ==
    IF l = <<>> THEN <<>>
    ELSE IF Len(l) = 1 THEN Head(l)
    ELSE Head(l) \o sep \o str_join(sep, Tail(l))

\* s.split('/'): the segments between slashes, empty ones included.
RECURSIVE str_split(_, _)
str_split(s, seg) ==
    IF s = <<>> THEN <<seg>>
    ELSE IF Head(s) = "/" THEN <<seg>> \o str_split(Tail(s), <<>>)
    ELSE str_split(Tail(s), Append(seg, Head(s)))

\* '%d' % n, for n >= 0
RECURSIVE Decimal(_)
Decimal(n) ==
    IF n < 10 THEN <<Ascii[17 + n]>>
    ELSE Decimal(n \div 10) \o <<Ascii[17 + (n % 10)]>>

(***************************************************************************)
(* os.path (posixpath) as objects.py uses it.                              *)
(***************************************************************************)
pardir == <<".", ".">>

\* path.join(a, b) for a relative b
path_join(a, b) ==
    IF a = <<>> \/ a[Len(a)] = "/" THEN a \o b ELSE a \o <<"/">> \o b

\* normpath's loop over the segments: empty and dot segments are dropped, a
\* dot-dot segment pops a segment (and is dropped at the root of an absolute
\* path).
RECURSIVE norm_comps(_, _, _)
norm_comps(comps, new_comps, initial_slashes) ==
    IF comps = <<>> THEN new_comps
    ELSE LET comp == Head(comps)
             n == Len(new_comps)
         IN IF comp = <<>> \/ comp = <<".">>
            THEN norm_comps(Tail(comps), new_comps, initial_slashes)
            ELSE IF \/ comp # pardir
                    \/ (initial_slashes = 0 /\ n = 0)
                    \/ (n > 0 /\ new_comps[n] = pardir)
            THEN norm_comps(Tail(comps), Append(new_comps, comp), initial_slashes)
            ELSE IF n > 0
            THEN norm_comps(Tail(comps), SubSeq(new_comps, 1, n - 1), initial_slashes)
            ELSE norm_comps(Tail(comps), new_comps, initial_slashes)

StartsWith(s, k) == Len(s) >= k /\ \A i \in 1..k : s[i] = "/"

\* path.normpath(p)
normpath(p) ==
    IF p = <<>> THEN <<".">>
    ELSE LET initial_slashes ==
                 IF ~StartsWith(p, 1) THEN 0
                 ELSE IF StartsWith(p, 2) /\ ~StartsWith(p, 3) THEN 2
                 ELSE 1
             joined == str_join(<<"/">>,
                           norm_comps(str_split(p, <<>>), <<>>, initial_slashes))
             out == [i \in 1..initial_slashes |-> "/"] \o joined
         IN IF out = <<>> THEN <<".">> ELSE out

\* path.basename(p): what follows the last slash
RECURSIVE basename(_)
basename(p) ==
    IF p = <<>> THEN <<>>
    ELSE IF p[Len(p)] = "/" THEN <<>>
    ELSE basename(SubSeq(p, 1, Len(p) - 1)) \o <<p[Len(p)]>>

\* The directory a path names, as the kernel resolves it: the names from the
\* root, dot skipped, dot-dot leaving the directory reached so far, a symbolic
\* link replaced by its target.  Every name exists in every directory.
ResolveLink(links, stack) ==
    IF \E l \in links : l[1] = stack
    THEN (CHOOSE l \in links : l[1] = stack)[2]
    ELSE stack

RECURSIVE resolve(_, _, _)
resolve(links, comps, stack) ==
    IF comps = <<>> THEN stack
    ELSE LET comp == Head(comps)
         IN IF comp = <<>> \/ comp = <<".">>
            THEN resolve(links, Tail(comps), stack)
            ELSE IF comp = pardir
            THEN resolve(links, Tail(comps),
                         IF stack = <<>> THEN stack
                         ELSE SubSeq(stack, 1, Len(stack) - 1))
            ELSE resolve(links, Tail(comps),
                         ResolveLink(links, Append(stack, comp)))

\* path.samefile(p, q): both name the same directory
samefile(links, p, q) ==
    resolve(links, str_split(p, <<>>), <<>>) = resolve(links, str_split(q, <<>>), <<>>)

(***************************************************************************)
(* The source objects of SpecCache: two static sources whose get_items     *)
(* reads the environment, a MultiSource over them, and a MultiSource over  *)
(* that MultiSource and a static source.                                   *)
(***************************************************************************)
StaticSources == {"s1", "s2"}

MultiSources == {"multi", "top"}

Sources == StaticSources \cup MultiSources

\* MultiSource.__init__: self.sources
sources(s) ==
    CASE s = "multi" -> <<"s1", "s2">>
      [] s = "top" -> <<"multi", "s2">>
      [] OTHER -> <<>>

\* Source.is_dynamic is False; MultiSource.is_dynamic is True.
is_dynamic(s) == s \in MultiSources

\* What the environment may hold for a static source.  s1 is a source whose
\* get_items is a generator (DirectorySource, AppSource, ...) over leaves x
\* and y; s2 is one that returns an empty tuple or else a generator
\* (PlacesSource), holding at most the one leaf z.
DataChoices(s) ==
    IF s = "s1"
    THEN { PyIter(e) : e \in SeqsUpTo({"x", "y"}, MaxItems) }
    ELSE { PyTuple(<<>>), PyIter(<<>>), PyIter(<<"z">>) }

(***************************************************************************)
(* get_leaves / get_items.  A call returns the new cached_items of every   *)
(* source, the value returned, the sources whose get_items ran (in order)  *)
(* and the sources whose get_leaves ran (in order).                        *)
(***************************************************************************)
RECURSIVE get_leaves(_, _, _)
RECURSIVE get_items(_, _)
RECURSIVE chain_leaves(_, _)

Result(c, r, called, read) ==
    [cache |-> c, ret |-> r, called |-> called, read |-> read]

\* The chaining loop with each child's items put before the ones already
\* gathered.
chain_leaves_prepends(children, acc) ==
    IF children = <<>> THEN acc
    ELSE LET r == get_leaves(Head(children), acc.cache, FALSE)
         IN chain_leaves(Tail(children),
                Result(r.cache, PyIter(r.ret.elems \o acc.ret.elems),
                       acc.called \o r.called, acc.read \o r.read))

\* MultiSource.get_items' loop: so.get_leaves() for each child in order; the
\* children's results are chained.
chain_leaves(children, acc) ==
    IF children = <<>> THEN acc
    ELSE LET r == get_leaves(Head(children), acc.cache, FALSE)
         IN chain_leaves(Tail(children),
                Result(r.cache, PyIter(acc.ret.elems \o r.ret.elems),
                       acc.called \o r.called, acc.read \o r.read))

get_items(s, c) ==
    IF s \in MultiSources
    THEN chain_leaves(sources(s), Result(c, PyIter(<<>>), <<s>>, <<>>))
    ELSE Result(c, data[s], <<s>>, <<>>)

\* get_leaves without its is_dynamic branch.
get_leaves_caches_dynamic(s, c, force_update) ==
    IF ~Truthy(c[s]) \/ force_update
    THEN LET r == get_items(s, c)
             v == aslist(r.ret)
         IN Result([r.cache EXCEPT ![s] = v], v, r.called, <<s>> \o r.read)
    ELSE Result(c, c[s], <<>>, <<s>>)

\* Source.get_leaves
get_leaves(s, c, force_update) ==
    IF is_dynamic(s)
    THEN LET r == get_items(s, c)
         IN Result(r.cache, r.ret, r.called, <<s>> \o r.read)
    ELSE IF ~Truthy(c[s]) \/ force_update
    THEN LET r == get_items(s, c)
             v == aslist(r.ret)
         IN Result([r.cache EXCEPT ![s] = v], v, r.called, <<s>> \o r.read)
    ELSE Result(c, c[s], <<>>, <<s>>)

\* lastForced after a call: a source whose get_leaves ran remembers the
\* result only if the call on it was the forced one.
Forced(s, force_update, r) ==
    [t \in Sources |->
        IF t = s /\ force_update /\ ~is_dynamic(s) THEN r.ret
        ELSE IF t \in Range(r.read) THEN PyNone
        ELSE lastForced[t]]

OpRecord(op, s, force_update, r) ==
    [op |-> op, src |-> s, force |-> force_update,
     pre |-> cached_items[s], preForced |-> lastForced[s],
     ret |-> r.ret, called |-> r.called, read |-> r.read]

NoOp == [op |-> "none", src |-> "s1", force |-> FALSE, pre |-> PyNone,
         preForced |-> PyNone, ret |-> PyNone, called |-> <<>>, read |-> <<>>]

(***************************************************************************)
(* Classes.                                                                *)
(***************************************************************************)
\* The classes a class derives from, itself included.
Mro(class) ==
    CASE class = "Source" -> {"Source", "KupferObject"}
      [] class \in {"FileSource", "DirectorySource", "SourcesSource", "MultiSource"}
           -> {class, "Source", "KupferObject"}
      [] OTHER -> {class}

\* Python 2 calls an unbound method Class.method(obj) only with an instance
\* of Class as obj, and raises TypeError otherwise.
UnboundCallAllowed(class, obj) == class \in Mro(obj.class)

(***************************************************************************)
(* SpecParent: Source and DirectorySource with has_parent / get_parent.    *)
(***************************************************************************)
\* A source object: its class and the fields the constructors set.
SourceObject(class, name) ==
    [class |-> class, name |-> name, dirlist |-> <<>>, depth |-> 0,
     directory |-> <<>>, sources |-> <<>>]

\* The class names, as __class__.__name__ gives them.
ClassName(class) ==
    CASE class = "Source" -> <<"S", "o", "u", "r", "c", "e">>
      [] class = "FileSource" -> <<"F", "i", "l", "e", "S", "o", "u", "r", "c", "e">>
      [] class = "DirectorySource" -> <<"D", "i", "r", "e", "c", "t", "o", "r", "y", "S", "o", "u", "r", "c", "e">>
      [] class = "SourcesSource" -> <<"S", "o", "u", "r", "c", "e", "s", "S", "o", "u", "r", "c", "e">>
      [] class = "MultiSource" -> <<"M", "u", "l", "t", "i", "S", "o", "u", "r", "c", "e">>

\* Source.__init__ without a name (KupferObject.__init__ likewise)
BaseSource == SourceObject("Source", ClassName("Source"))

\* FileSource.__init__
FileSource(dirlist, depth) ==
    [SourceObject("FileSource",
        basename(dirlist[1])
          \o (IF Len(dirlist) > 1 THEN <<" ", "e", "t", " ", "a", "l">> ELSE <<>>))
     EXCEPT !.dirlist = dirlist, !.depth = depth]

\* DirectorySource.__init__
DirectorySource(dir) ==
    [SourceObject("DirectorySource",
        IF basename(dir) # <<>> THEN basename(dir) ELSE dir)
     EXCEPT !.directory = dir]

\* SourcesSource.__init__ with its default name
SourcesSource(srcs) ==
    [SourceObject("SourcesSource", 
        <<"C", "a", "t", "a", "l", "o", "g", " ", "o", "f", " ", "C", "a", "t", "a", "l", "o", "g", "s">>)
     EXCEPT !.sources = srcs]

\* MultiSource.__init__
MultiSource(srcs) ==
    [SourceObject("MultiSource", <<"C", "a", "t", "a", "l", "o", "g">>)
     EXCEPT !.sources = srcs]

\* has_parent without the samefile test.
has_parent_always(self) == self.class = "DirectorySource"

\* DirectorySource._parent_path
_parent_path(self) == normpath(path_join(self.directory, pardir))

\* Source.has_parent / DirectorySource.has_parent
has_parent(self) ==
    IF self.class = "DirectorySource"
    THEN ~samefile(fs, self.directory, _parent_path(self))
    ELSE FALSE

Outcome(kind, value) == [kind |-> kind, value |-> value]

\* Source.get_parent / DirectorySource.get_parent.  Without a parent the
\* latter evaluates FileSource.has_parent(self): an unbound method of
\* FileSource called with a DirectorySource.
get_parent(self) ==
    IF self.class = "DirectorySource"
    THEN IF ~has_parent(self)
         THEN IF UnboundCallAllowed("FileSource", self)
              THEN Outcome("return_False", self)
              ELSE Outcome("TypeError", self)
         ELSE Outcome("return_source", DirectorySource(_parent_path(self)))
    ELSE Outcome("NoParent", self)

PathChars == {"/", "a", "."}

\* The absolute paths of at most MaxPathLen characters.
StartDirs ==
    { <<"/">> \o t : t \in SeqsUpTo(PathChars, MaxPathLen - 1) }

\* The directory name a.
NameA == <<"a">>

\* File systems: without symbolic links, with /a a link to /, with /a/a a
\* link to /a, with /aa a link to /a/a.
FsChoices ==
    { {},
      { << <<NameA>>, <<>> >> },
      { << <<NameA, NameA>>, <<NameA>> >> },
      { << << <<"a", "a">> >>, <<NameA, NameA>> >> } }

NoCall == [op |-> "none", from |-> BaseSource, had_parent |-> FALSE,
           outcome |-> "none"]

(***************************************************************************)
(* SpecIdent: __repr__, __eq__ and __hash__ of sources.                    *)
(***************************************************************************)
\* KupferObject.__repr__ (with __str__) / FileSource.__repr__
repr(self) ==
    IF self.class = "FileSource"
    THEN <<"<">> \o ClassName(self.class) \o <<" ">>
           \o str_join(<<" ">>, sorted(self.dirlist))
           \o <<" ", "d", "e", "p", "t", "h", "=">> \o Decimal(self.depth) \o <<">">>
    ELSE <<"<">> \o ClassName(self.class) \o <<" ">> \o self.name \o <<">">>

\* x ^ y on non-negative integers
RECURSIVE BitXor(_, _)
BitXor(x, y) ==
    IF x = 0 THEN y
    ELSE IF y = 0 THEN x
    ELSE ((x + y) % 2) + 2 * BitXor(x \div 2, y \div 2)

RECURSIVE hash_loop(_, _)
hash_loop(x, str) ==
    IF str = <<>> THEN x
    ELSE hash_loop(
           BitXor(((1000003 % HashModulus) * x) % HashModulus, Ord(Head(str))),
           Tail(str))

\* hash(str) of Python 2: x = ord(s[0]) << 7; x = (1000003 * x) ^ ord(c) for
\* each c; x ^= len(s).  Every step commutes with keeping the low bits, so
\* this is the low 16 bits of the hash.
str_hash(str) ==
    IF str = <<>> THEN 0
    ELSE BitXor(hash_loop((Ord(Head(str)) * 128) % HashModulus, str), Len(str))

\* Source.__eq__
source_eq(self, other) == self.class = other.class /\ repr(self) = repr(other)

\* Source.__hash__
source_hash(self) == str_hash(repr(self))

\* Directories, one of them with a space in its name.
DirPool ==
    { <<"/", "a">>, <<"/", "b">>,
      <<"/", "a", " ", "/", "b">>,
      <<"/", "a", "/", "x">>, <<"/", "b", "/", "x">> }

\* The lists of distinct directories a FileSource is made from.
DirLists ==
    { l \in SeqsUpTo(DirPool, MaxDirs) :
        Len(l) > 0 /\ \A i, j \in 1..Len(l) : i # j => l[i] # l[j] }

\* The children of a SourcesSource or MultiSource.
ChildPool == { DirectorySource(<<"/", "a">>), FileSource(<<<<"/", "b">>>>, 1) }

(***************************************************************************)
(* SpecAct: leaves, their content, and the activation of actions.          *)
(***************************************************************************)
\* A Python object as a leaf holds it or a call returns or raises it: its
\* type, the string it is or the directory it was made for, and for the
\* sources of SpecCache which one it is.
PyObject(type, str, src) == [type |-> type, str |-> str, src |-> src]

None == PyObject("NoneType", <<>>, "")

PyStr(str) == PyObject("str", str, "")

\* raise Error: an instance of the error class
Raised(error) == [kind |-> "raise", value |-> PyObject(error, <<>>, "")]

Returned(value) == [kind |-> "return", value |-> value]

SourceClasses ==
    {"Source", "FileSource", "DirectorySource", "SourcesSource", "MultiSource"}

IsSource(obj) == obj.type \in SourceClasses

\* The source object s of SpecCache
SourceRef(s) ==
    PyObject(IF s \in MultiSources THEN "MultiSource" ELSE "Source", <<>>, s)

\* DirectorySource(dir), a new object
NewDirectorySourceObject(dir) == PyObject("DirectorySource", dir, "")

\* Leaf.__init__: self.object = obj
Leaf(class, obj) == [class |-> class, object |-> obj]

FilePool == { <<"/", "a">>, <<"/", "a", "/", "x">> }

Leaves ==
    { Leaf("Leaf", PyStr(<<"x">>)),
      Leaf("DummyLeaf", None),                            \* DummyLeaf.__init__
      Leaf("AppLeaf", PyObject("DesktopItem", <<>>, "")),  \* AppLeaf.__init__
      Leaf("UrlLeaf", PyStr(<<"h", "t", "t", "p", ":", "/", "/", "a">>)) }
    \cup { Leaf("FileLeaf", PyStr(f)) : f \in FilePool }
    \cup { Leaf("SourceLeaf", SourceRef(s)) : s \in Sources }

\* path.isdir
isdir(p) == p \in dirs

\* Leaf.has_content / FileLeaf.has_content / SourceLeaf.has_content
has_content(leaf) ==
    CASE leaf.class = "FileLeaf" -> isdir(leaf.object.str)
      [] leaf.class = "SourceLeaf" -> TRUE
      [] OTHER -> FALSE

Leaf_content_source(leaf) == Raised("NoContent")

\* content_source without FileLeaf's has_content test.
content_source_skips_check(leaf) ==
    CASE leaf.class = "FileLeaf" ->
             Returned(NewDirectorySourceObject(leaf.object.str))
      [] leaf.class = "SourceLeaf" -> Returned(leaf.object)
      [] OTHER -> Leaf_content_source(leaf)

\* Leaf.content_source / FileLeaf.content_source / SourceLeaf.content_source
content_source(leaf) ==
    CASE leaf.class = "FileLeaf" ->
             IF has_content(leaf)
             THEN Returned(NewDirectorySourceObject(leaf.object.str))
             ELSE Leaf_content_source(leaf)
      [] leaf.class = "SourceLeaf" -> Returned(leaf.object)
      [] OTHER -> Leaf_content_source(leaf)

ActionClasses ==
    {"Action", "Echo", "OpenWith", "OpenUrl", "Show", "OpenDirectory",
     "RevealFile", "OpenTerminal", "Dragbox", "Launch", "Execute",
     "SearchInside", "RescanSource", "DummyAction"}

\* Action.is_factory, overridden by SearchInside (True) and RescanSource
\* (False)
is_factory(action) ==
    CASE action = "SearchInside" -> TRUE
      [] action = "RescanSource" -> FALSE
      [] OTHER -> FALSE

\* SearchInside.activate without its return.
SearchInside_activate_returns_nothing(leaf) ==
    IF ~has_content(leaf)
    THEN Raised("InvalidLeaf")
    ELSE Returned(None)

\* SearchInside.activate
SearchInside_activate(leaf) ==
    IF ~has_content(leaf)
    THEN Raised("InvalidLeaf")
    ELSE content_source(leaf)

\* RescanSource.activate, its outcome: source = leaf.object, and
\* source.is_dynamic() is an AttributeError on an object that is no Source.
RescanSource_outcome(leaf) ==
    IF ~has_content(leaf)
    THEN Raised("InvalidLeaf")
    ELSE IF ~IsSource(leaf.object)
    THEN Raised("AttributeError")
    ELSE Returned(None)

\* The type of leaf.object the library calls of an action's activate take:
\* a path or URL string (gnomevfs, spawn), or a desktop item (launch).
ObjectTypeTaken(action) ==
    CASE action \in {"OpenWith", "OpenUrl", "Show", "OpenDirectory", "RevealFile",
                     "OpenTerminal", "Dragbox", "Execute"} -> "str"
      [] action = "Launch" -> "DesktopItem"

\* The outcomes of action.activate(leaf).  The activate methods other than
\* SearchInside's have no return statement; those that hand leaf.object to
\* gnomevfs, a spawn or a desktop item return None or raise what the
\* library raises.
activate(action, leaf) ==
    CASE action = "SearchInside" -> { SearchInside_activate(leaf) }
      [] action = "RescanSource" -> { RescanSource_outcome(leaf) }
      [] action \in {"Action", "DummyAction", "Echo"} -> { Returned(None) }
      [] OTHER ->
           IF leaf.object.type = ObjectTypeTaken(action)
           THEN { Returned(None), Raised("LibraryError") }
           ELSE { Raised(IF action = "Launch" THEN "AttributeError"
                                              ELSE "TypeError") }

NoAct == [op |-> "none", action |-> "Action", leaf |-> Leaf("DummyLeaf", None),
          had_content |-> FALSE, outcome |-> Returned(None)]

(***************************************************************************)
(* SpecCache.                                                              *)
(***************************************************************************)
\* The files, bookmarks, ... behind a static source change.
DataChange(s, v) ==
    /\ v # data[s]
    /\ data' = [data EXCEPT ![s] = v]
    /\ lastOp' = [NoOp EXCEPT !.op = "data_change", !.src = s]
    /\ UNCHANGED <<cached_items, lastForced>>
    /\ UNCHANGED <<parentVars, identVars, actVars>>

\* A caller runs s.get_leaves(force_update).
GetLeaves(s, force_update) ==
    LET r == get_leaves(s, cached_items, force_update)
    IN /\ cached_items' = r.cache
       /\ lastForced' = Forced(s, force_update, r)
       /\ lastOp' = OpRecord("get_leaves", s, force_update, r)
       /\ UNCHANGED data
       /\ UNCHANGED <<parentVars, identVars, actVars>>

\* RescanSource.activate on a leaf with content whose object is the source
\* s, its effect: a forced get_leaves unless s is dynamic.
Rescan(s) ==
    IF ~is_dynamic(s)
    THEN LET r == get_leaves(s, cached_items, TRUE)
         IN /\ cached_items' = r.cache
            /\ lastForced' = Forced(s, TRUE, r)
            /\ lastOp' = [OpRecord("rescan", s, TRUE, r) EXCEPT !.ret = PyNone]
            /\ UNCHANGED data
    ELSE /\ lastOp' = [NoOp EXCEPT !.op = "rescan", !.src = s,
                                   !.pre = cached_items[s],
                                   !.preForced = lastForced[s]]
         /\ UNCHANGED <<data, cached_items, lastForced>>

\* RescanSource().activate(SourceLeaf(s, str(s)))
RescanSource_activate(s) ==
    /\ Rescan(s)
    /\ UNCHANGED <<parentVars, identVars, actVars>>

CacheNext ==
    \/ \E s \in StaticSources : \E v \in DataChoices(s) : DataChange(s, v)
    \/ \E s \in Sources : \E f \in BOOLEAN : GetLeaves(s, f)
    \/ \E s \in Sources : RescanSource_activate(s)

\* Source.__init__ for each source; the environment holds any data.
CacheInit ==
    /\ data \in [StaticSources -> UNION { DataChoices(s) : s \in StaticSources }]
    /\ \A s \in StaticSources : data[s] \in DataChoices(s)
    /\ cached_items = [s \in Sources |-> PyNone]
    /\ lastForced = [s \in Sources |-> PyNone]
    /\ lastOp = NoOp
    /\ fs = {} /\ start = <<"/">> /\ cur = BaseSource /\ steps = 0
    /\ lastCall = NoCall
    /\ objA = BaseSource /\ objB = BaseSource
    /\ dirs = {} /\ lastAct = NoAct

SpecCache == CacheInit /\ [][CacheNext]_vars

(***************************************************************************)
(* SpecParent.                                                             *)
(***************************************************************************)
\* A caller runs cur.get_parent() and moves to the source returned, if one is.
GetParent ==
    LET r == get_parent(cur)
    IN /\ lastCall' = [op |-> "get_parent", from |-> cur,
                       had_parent |-> has_parent(cur), outcome |-> r.kind]
       /\ IF r.kind = "return_source"
          THEN cur' = r.value /\ steps' = steps + 1
          ELSE UNCHANGED <<cur, steps>>
       /\ UNCHANGED <<fs, start>>
       /\ UNCHANGED <<cacheVars, identVars, actVars>>

ParentNext == GetParent

\* A Source() or a DirectorySource(start), in some file system.
ParentInit ==
    /\ fs \in FsChoices
    /\ start \in StartDirs
    /\ cur \in {BaseSource, DirectorySource(start)}
    /\ steps = 0
    /\ lastCall = NoCall
    /\ data = [s \in StaticSources |-> PyIter(<<>>)]
    /\ cached_items = [s \in Sources |-> PyNone]
    /\ lastForced = [s \in Sources |-> PyNone]
    /\ lastOp = NoOp
    /\ objA = BaseSource /\ objB = BaseSource
    /\ dirs = {} /\ lastAct = NoAct

SpecParent == ParentInit /\ [][ParentNext]_vars

(***************************************************************************)
(* SpecIdent.                                                              *)
(***************************************************************************)
NewFileSource(dirlist, depth) ==
    /\ \/ objA' = FileSource(dirlist, depth) /\ UNCHANGED objB
       \/ objB' = FileSource(dirlist, depth) /\ UNCHANGED objA
    /\ UNCHANGED <<cacheVars, parentVars, actVars>>

NewDirectorySource(dir) ==
    /\ \/ objA' = DirectorySource(dir) /\ UNCHANGED objB
       \/ objB' = DirectorySource(dir) /\ UNCHANGED objA
    /\ UNCHANGED <<cacheVars, parentVars, actVars>>

NewSourcesSource(srcs) ==
    /\ \/ objA' = SourcesSource(srcs) /\ UNCHANGED objB
       \/ objB' = SourcesSource(srcs) /\ UNCHANGED objA
    /\ UNCHANGED <<cacheVars, parentVars, actVars>>

NewMultiSource(srcs) ==
    /\ \/ objA' = MultiSource(srcs) /\ UNCHANGED objB
       \/ objB' = MultiSource(srcs) /\ UNCHANGED objA
    /\ UNCHANGED <<cacheVars, parentVars, actVars>>

IdentNext ==
    \/ \E l \in DirLists : \E d \in 0..MaxDepth : NewFileSource(l, d)
    \/ \E d \in DirPool : NewDirectorySource(d)
    \/ \E l \in SeqsUpTo(ChildPool, MaxSources) : NewSourcesSource(l)
    \/ \E l \in SeqsUpTo(ChildPool, MaxSources) : NewMultiSource(l)

\* Two Source() objects.
IdentInit ==
    /\ objA = BaseSource
    /\ objB = BaseSource
    /\ data = [s \in StaticSources |-> PyIter(<<>>)]
    /\ cached_items = [s \in Sources |-> PyNone]
    /\ lastForced = [s \in Sources |-> PyNone]
    /\ lastOp = NoOp
    /\ fs = {} /\ start = <<"/">> /\ cur = BaseSource /\ steps = 0
    /\ lastCall = NoCall
    /\ dirs = {} /\ lastAct = NoAct

SpecIdent == IdentInit /\ [][IdentNext]_vars

(***************************************************************************)
(* SpecAct.                                                                *)
(***************************************************************************)
\* A caller runs leaf.content_source().
ContentSource(leaf) ==
    /\ lastAct' = [op |-> "content_source", action |-> "Action", leaf |-> leaf,
                   had_content |-> has_content(leaf),
                   outcome |-> content_source(leaf)]
    /\ UNCHANGED dirs
    /\ UNCHANGED <<cacheVars, parentVars, identVars>>

\* A caller runs action.activate(leaf), with the outcome o; RescanSource on
\* the leaf of a source rescans it.
Activate(action, leaf, o) ==
    /\ lastAct' = [op |-> "activate", action |-> action, leaf |-> leaf,
                   had_content |-> has_content(leaf), outcome |-> o]
    /\ UNCHANGED dirs
    /\ IF action = "RescanSource" /\ o.kind = "return"
       THEN Rescan(leaf.object.src)
       ELSE UNCHANGED cacheVars
    /\ UNCHANGED <<parentVars, identVars>>

ActNext ==
    \/ \E leaf \in Leaves : ContentSource(leaf)
    \/ \E action \in ActionClasses : \E leaf \in Leaves :
          \E o \in activate(action, leaf) : Activate(action, leaf, o)

\* Any of the files may be a directory; the sources are new.
ActInit ==
    /\ dirs \in SUBSET FilePool
    /\ lastAct = NoAct
    /\ data = [s \in StaticSources |->
                 IF s = "s1" THEN PyIter(<<"x">>) ELSE PyTuple(<<>>)]
    /\ cached_items = [s \in Sources |-> PyNone]
    /\ lastForced = [s \in Sources |-> PyNone]
    /\ lastOp = NoOp
    /\ fs = {} /\ start = <<"/">> /\ cur = BaseSource /\ steps = 0
    /\ lastCall = NoCall
    /\ objA = BaseSource /\ objB = BaseSource

SpecAct == ActInit /\ [][ActNext]_vars

(***************************************************************************)
(* Claims on SpecCache.                                                    *)
(***************************************************************************)
\* The latest call was s.get_leaves(force) made directly on a static source.
StaticRead(force) ==
    /\ lastOp.op = "get_leaves"
    /\ lastOp.force = force
    /\ ~is_dynamic(lastOp.src)

\* C1: cache stability.  A non-forced get_leaves on a static source whose
\* cache an earlier get_leaves populated (with any result, the empty one
\* included) returns the cached items unchanged and does not run get_items.
C1_CacheStability ==
    (StaticRead(FALSE) /\ lastOp.pre # PyNone)
        => /\ lastOp.ret = lastOp.pre
           /\ cached_items[lastOp.src] = lastOp.pre
           /\ Count(lastOp.src, lastOp.called) = 0

\* C6: a dynamic source never caches.  cached_items of a dynamic source is
\* None in every state, whatever get_leaves calls and RescanSource
\* activations were made, and every get_leaves on it (made by the caller or
\* by a MultiSource holding it) runs its get_items exactly once.
C6_DynamicNeverCaches ==
    \A s \in Sources :
        is_dynamic(s) =>
            /\ cached_items[s] = PyNone
            /\ Count(s, lastOp.called) = Count(s, lastOp.read)
            /\ (lastOp.op = "get_leaves" /\ lastOp.src = s)
                   => Count(s, lastOp.called) = 1

\* A forced get_leaves on the nested MultiSource has just run, after its
\* static children were cached and a RescanSource could have touched it.
C6_Witness ==
    /\ lastOp.op = "get_leaves"
    /\ lastOp.src = "top"
    /\ lastOp.force
    /\ cached_items["s1"] # PyNone
    /\ cached_items["s2"] # PyNone
    /\ Len(lastOp.ret.elems) > 1

\* C7: force refresh.  A forced get_leaves on a static source runs get_items
\* exactly once, stores the fresh sequence in cached_items and returns it;
\* and the next non-forced get_leaves on that source returns that sequence.
C7_ForceRefresh ==
    /\ StaticRead(TRUE)
          => /\ Count(lastOp.src, lastOp.called) = 1
             /\ cached_items[lastOp.src] = aslist(data[lastOp.src])
             /\ lastOp.ret = cached_items[lastOp.src]
    /\ (StaticRead(FALSE) /\ lastOp.preForced # PyNone)
          => lastOp.ret = lastOp.preForced

\* What get_leaves of each source yields once a call has gone through it: a
\* static source yields its cached_items, a MultiSource the yields of its
\* children, one child after the other in the order of its child list.
RECURSIVE ChildYield(_)
RECURSIVE Concatenation(_)

Concatenation(children) ==
    IF children = <<>> THEN <<>>
    ELSE ChildYield(Head(children)) \o Concatenation(Tail(children))

ChildYield(s) ==
    IF is_dynamic(s) THEN Concatenation(sources(s)) ELSE cached_items[s].elems

\* The latest call enumerated the static child s: its cache was not usable.
Uncached(s) ==
    /\ Count(s, lastOp.called) > 0
    /\ cached_items[s] = aslist(data[s])

\* C11: union ordering.  get_leaves on a MultiSource yields exactly the
\* concatenation of what get_leaves of each child yields, in child-list
\* order, every item of one child before any item of the next, nothing
\* added, dropped or reordered, whether a child is static and uncached,
\* static and cached, or dynamic; and every child's get_leaves was run, in
\* child-list order.  With an uncached s1 holding x, y and an uncached s2
\* holding z, the union of s1 and s2 yields exactly x, y, z.
C11_UnionOrdering ==
    /\ (lastOp.op = "get_leaves" /\ is_dynamic(lastOp.src))
          => /\ lastOp.ret = PyIter(Concatenation(sources(lastOp.src)))
             /\ \A s \in Range(sources(lastOp.src)) : s \in Range(lastOp.read)
    /\ (lastOp.op = "get_leaves" /\ lastOp.src = "multi")
          => /\ lastOp.read = <<"multi", "s1", "s2">>
             /\ lastOp.ret.elems
                    = cached_items["s1"].elems \o cached_items["s2"].elems
             /\ (Uncached("s1") /\ Uncached("s2"))
                    => lastOp.ret.elems = data["s1"].elems \o data["s2"].elems
    /\ (lastOp.op = "get_leaves" /\ lastOp.src = "top")
          => /\ lastOp.read = <<"top", "multi", "s1", "s2", "s2">>
             /\ lastOp.ret.elems
                    = (cached_items["s1"].elems \o cached_items["s2"].elems)
                          \o cached_items["s2"].elems

\* The union of s1 (holding x, y) and s2 (holding z) has just been read and
\* yielded x, y, z, with s1 served from its cache and s2 enumerated.
C11_Witness ==
    /\ lastOp.op = "get_leaves"
    /\ lastOp.src = "multi"
    /\ lastOp.ret.elems = <<"x", "y", "z">>
    /\ Count("s1", lastOp.called) = 0
    /\ Count("s2", lastOp.called) = 1

(***************************************************************************)
(* Claims on SpecParent.                                                   *)
(***************************************************************************)
\* C4: NoParent.  get_parent() on a source whose has_parent() is false
\* raises NoParent, for the base Source and for a DirectorySource alike.
C4_NoParent ==
    (lastCall.op = "get_parent" /\ ~lastCall.had_parent)
        => lastCall.outcome = "NoParent"

\* The components of a path: its non-empty segments.
Components(p) == SelectSeq(str_split(p, <<>>), LAMBDA c : c # <<>>)

\* A normalized absolute path: one or two leading slashes, then names that
\* are neither dot nor dot-dot, single slashes between them, none at the end.
IsNormalized(p) ==
    LET k == IF StartsWith(p, 2) THEN 2 ELSE 1
        rest == SubSeq(p, k + 1, Len(p))
    IN /\ StartsWith(p, 1)
       /\ ~StartsWith(p, 3)
       /\ \/ rest = <<>>
          \/ \A c \in Range(str_split(rest, <<>>)) :
                 c # <<>> /\ c # <<".">> /\ c # pardir

\* C8: parent termination.  A walk from DirectorySource(start) that follows
\* get_parent() while has_parent() is true makes at most as many steps as
\* start has components, has reached a source without parent when it has
\* made that many, and each step yields a DirectorySource for the
\* normalized parent path: the path stepped from, normalized, less its
\* last component.
C8_ParentTermination ==
    cur.class = "DirectorySource" =>
        /\ steps <= Len(Components(start))
        /\ steps = Len(Components(start)) => ~has_parent(cur)
        /\ lastCall.outcome = "return_source" =>
              LET from == Components(normpath(lastCall.from.directory))
              IN /\ lastCall.from.class = "DirectorySource"
                 /\ IsNormalized(cur.directory)
                 /\ Components(cur.directory)
                      = SubSeq(from, 1, Len(from) - 1)

\* The walk from /a/a/a (the shape of /usr/local/bin) has reached / in
\* three steps, and / has no parent.
C8_Witness ==
    /\ start = <<"/", "a", "/", "a", "/", "a">>
    /\ fs = {}
    /\ steps = 3
    /\ cur = DirectorySource(<<"/">>)
    /\ ~has_parent(cur)

(***************************************************************************)
(* Claims on SpecIdent.                                                    *)
(***************************************************************************)
\* a == b and hash(a) == hash(b)
SameSource(a, b) == source_eq(a, b) /\ source_hash(a) = source_hash(b)

\* C2: identity of file-tree providers.  Two FileSources are equal and hash
\* identically if and only if they were built from the same set of paths
\* and the same depth.
C2_FileSourceIdentity ==
    (objA.class = "FileSource" /\ objB.class = "FileSource")
        => (SameSource(objA, objB)
              <=> /\ Range(objA.dirlist) = Range(objB.dirlist)
                  /\ objA.depth = objB.depth)

\* C3: identity follows configuration for every provider kind.  Two
\* DirectorySources are equal (and hash identically) only when made for the
\* same directory, two SourcesSources or two MultiSources only when they
\* hold the same children.
C3_IdentityFollowsConfiguration ==
    /\ (objA.class = "DirectorySource" /\ objB.class = "DirectorySource"
          /\ SameSource(objA, objB))
         => objA.directory = objB.directory
    /\ (objA.class \in {"SourcesSource", "MultiSource"}
          /\ objB.class = objA.class /\ SameSource(objA, objB))
         => objA.sources = objB.sources

(***************************************************************************)
(* Claims on SpecAct.                                                      *)
(***************************************************************************)
RaisedError(o, error) == o.kind = "raise" /\ o.value.type = error

\* C5: InvalidLeaf on a wrong item.  SearchInside.activate and
\* RescanSource.activate on a leaf without content raise InvalidLeaf, and
\* so does RescanSource.activate on a leaf with content whose object is no
\* Source (a FileLeaf of a directory).
C5_InvalidLeaf ==
    lastAct.op = "activate" =>
        /\ (lastAct.action \in {"SearchInside", "RescanSource"}
              /\ ~lastAct.had_content)
             => RaisedError(lastAct.outcome, "InvalidLeaf")
        /\ (lastAct.action = "RescanSource" /\ lastAct.had_content
              /\ ~IsSource(lastAct.leaf.object))
             => RaisedError(lastAct.outcome, "InvalidLeaf")

\* C9: content round-trip.  For a leaf of any kind, content_source() returns
\* a Source if has_content() is true (for a SourceLeaf the source it wraps)
\* and raises NoContent if has_content() is false.
C9_ContentRoundTrip ==
    lastAct.op = "content_source" =>
        IF lastAct.had_content
        THEN /\ lastAct.outcome.kind = "return"
             /\ IsSource(lastAct.outcome.value)
             /\ lastAct.leaf.class = "SourceLeaf"
                  => lastAct.outcome.value = lastAct.leaf.object
        ELSE RaisedError(lastAct.outcome, "NoContent")

\* content_source() has been called on the FileLeaf of a directory and
\* returned a DirectorySource for it.
C9_Witness ==
    /\ lastAct.op = "content_source"
    /\ lastAct.leaf.class = "FileLeaf"
    /\ lastAct.had_content
    /\ lastAct.outcome = Returned(NewDirectorySourceObject(lastAct.leaf.object.str))

\* C10: factory contract.  activate returns a Source exactly when the
\* action is a factory and the activation succeeds: an action whose
\* is_factory() is false (RescanSource included) never returns a Source,
\* a factory that returns returns a Source, and SearchInside on a leaf with
\* content returns the leaf's content source.
C10_FactoryContract ==
    lastAct.op = "activate" =>
        /\ (lastAct.outcome.kind = "return" /\ IsSource(lastAct.outcome.value))
             <=> (is_factory(lastAct.action) /\ lastAct.outcome.kind = "return")
        /\ (lastAct.action = "SearchInside" /\ lastAct.had_content)
             => /\ lastAct.outcome.kind = "return"
                /\ lastAct.leaf.class = "SourceLeaf"
                     => lastAct.outcome.value = lastAct.leaf.object
                /\ lastAct.leaf.class = "FileLeaf"
                     => lastAct.outcome.value
                          = NewDirectorySourceObject(lastAct.leaf.object.str)

\* SearchInside has been activated on the FileLeaf of a directory and
\* returned its DirectorySource, after a RescanSource activation loaded s1.
C10_Witness ==
    /\ lastAct.op = "activate"
    /\ lastAct.action = "SearchInside"
    /\ lastAct.leaf.class = "FileLeaf"
    /\ lastAct.outcome.kind = "return"
    /\ lastAct.outcome.value.type = "DirectorySource"
    /\ cached_items["s1"] # PyNone

====
